---- MODULE Spec2Model ----
(***************************************************************************)
(* Model of the PBC orchestrator (src/main.go): the two HTTP handlers      *)
(* createOrder and acceptDCCHandler, the detached executeWorkflowSteps     *)
(* goroutines they start, and the shared state ordersDB (guarded by        *)
(* orderMutex) and workflowInstances (not guarded by anything).            *)
(*                                                                         *)
(* A task is one inbound request.  A burst is one executeWorkflowSteps     *)
(* goroutine; every request starts at most one, so bursts are named by the *)
(* request that started them.  The program counter of a task or burst says *)
(* which statement it is executing; the step that leaves the statement     *)
(* applies its effect.                                                     *)
(***************************************************************************)
EXTENDS Integers, Sequences, FiniteSets, TLC

\* Number of concurrent /create-order requests.
NumCreate == 2
\* Number of concurrent /accept-dcc requests.
NumDecide == 2

Creators == 1..NumCreate
Deciders == (NumCreate + 1)..(NumCreate + NumDecide)
Tasks == Creators \cup Deciders

\* The mutex is free.
NoTask == 0
\* A nil *WorkflowInstance / nil *Workflow.
Nil == 0

\* Request bodies the clients send.
Currencies == {"USD", "BRL", "EUR"}
OrderAmount == 100
\* /accept-dcc bodies: the acceptance of the offer of 85 BRL, and the refusal,
\* which sends no new values (they decode to their zero values).
DecisionBodies ==
  { [Accepted |-> TRUE,  NewAmount |-> 85, NewCurrency |-> "BRL"],
    [Accepted |-> FALSE, NewAmount |-> 0,  NewCurrency |-> ""] }

-----------------------------------------------------------------------------
\* workflowsDB, in registration order.
workflowsDB ==
  << [WorkflowID |-> "wf-payment-dcc-proposal",
      Criteria   |-> [payment_type |-> "credit_card", currency |-> "USD"],
      Steps      |-> << [StepID |-> "dcc_proposal", Service |-> "PBC_DCC", Status |-> "pending"],
                        [StepID |-> "payment_processing", Service |-> "PBC_Payment", Status |-> "pending"] >>],
     [WorkflowID |-> "wf-payment-generic",
      Criteria   |-> [payment_type |-> "credit_card", currency |-> "BRL"],
      Steps      |-> << [StepID |-> "payment_processing", Service |-> "PBC_Payment", Status |-> "pending"] >>] >>

\* fmt.Sprintf("order-%d", n)
FormatOrderID(n) == <<"order-", n>>

\* The order IDs a client can name in /accept-dcc.
ClientOrderIDs == {FormatOrderID(n) : n \in 1..NumCreate}

\* The zero value of Order (what a failed map lookup yields).
ZeroOrder ==
  [OrderID |-> <<"", 0>>, CustomerID |-> "", Amount |-> 0, Currency |-> "",
   CardBrand |-> "", DCCAccepted |-> FALSE, PaymentAmount |-> 0, PaymentCurrency |-> ""]

\* The order decoded from the body of request t: OrderID and the payment
\* fields are not sent, so they hold their zero values.
DecodeOrder(t, cur) ==
  [ZeroOrder EXCEPT !.CustomerID = <<"cliente", t>>, !.Amount = OrderAmount,
                    !.Currency = cur, !.CardBrand = "VISA"]

\* A delete that clears the map.
MapDeleteAll(m, k) == [x \in {} |-> 0]

\* m[k] = v for a Go map m modelled as a function.
MapPut(m, k, v) == [x \in DOMAIN m \cup {k} |-> IF x = k THEN v ELSE m[x]]

\* delete(m, k)
MapDelete(m, k) == [x \in DOMAIN m \ {k} |-> m[x]]

\* The empty map.
EmptyMap == [x \in {} |-> Nil]

-----------------------------------------------------------------------------
VARIABLES
  ordersDB,           \* map[string]Order
  orderMutex,         \* the task holding orderMutex, or NoTask
  workflowInstances,  \* map[string]*WorkflowInstance: OrderID -> index into heap
  heap,               \* the WorkflowInstance objects allocated so far, by address
  pc,                 \* pc[t]: the statement request t is executing
  local,              \* local[t]: the handler's local variables
  burst,              \* burst[t]: the goroutine started by request t
  payments,           \* what processPayment has logged
  offers,             \* what proposeDCC has logged
  crashed             \* the process has died (fatal error or panic)

vars == <<ordersDB, orderMutex, workflowInstances, heap, pc, local, burst,
          payments, offers, crashed>>

\* What a handler has sent through its http.ResponseWriter: nothing yet.
NoReply == [status |-> 0, body |-> << >>]

\* The reply of a handler that returns without having written anything:
\* net/http sends 200 with an empty body.
ImplicitReply == [status |-> 200, body |-> << >>]

\* w.WriteHeader(http.StatusCreated); json.NewEncoder(w).Encode(order): the
\* body is one JSON document with the eight fields of the order.
CreatedReply(order) == [status |-> 201, body |-> <<order>>]

\* w.WriteHeader(http.StatusOK), no body.
OkReply == [status |-> 200, body |-> << >>]

\* A handler's locals before its request is decoded: createOrder's `order`;
\* acceptDCCHandler's `order`, `exists` and the fields of `response`; `reply`
\* is what the handler has sent through `w`.  `late` is no variable of the
\* code: it records that, when an /accept-dcc was submitted, the instance of
\* its order had already been removed.
NoLocal == [order |-> ZeroOrder, exists |-> FALSE, Accepted |-> FALSE,
            NewAmount |-> 0, NewCurrency |-> "", OrderID |-> <<"", 0>>,
            late |-> FALSE, reply |-> NoReply]

\* A goroutine that has not been started.
NoBurst == [pc |-> "none", order |-> ZeroOrder, instance |-> Nil, i |-> 0]

Init ==
  /\ ordersDB = EmptyMap
  /\ orderMutex = NoTask
  /\ workflowInstances = EmptyMap
  /\ heap = EmptyMap
  /\ pc = [t \in Tasks |-> "idle"]
  /\ local = [t \in Tasks |-> NoLocal]
  /\ burst = [t \in Tasks |-> NoBurst]
  /\ payments = {}
  /\ offers = {}
  /\ crashed = FALSE

\* The process dies (a fatal error of the runtime, or a panic in a goroutine,
\* which nothing recovers): its memory, its handlers, its goroutines and the
\* logs it would still have written are gone.
Die ==
  /\ crashed' = TRUE
  /\ ordersDB' = EmptyMap
  /\ orderMutex' = NoTask
  /\ workflowInstances' = EmptyMap
  /\ heap' = EmptyMap
  /\ pc' = [t \in Tasks |-> "dead"]
  /\ local' = [t \in Tasks |-> NoLocal]
  /\ burst' = [t \in Tasks |-> NoBurst]
  /\ payments' = {}
  /\ offers' = {}

-----------------------------------------------------------------------------
\* A lookup that matches on the payment currency.
findWorkflowByPayment(order) ==
  LET matching == {k \in 1..Len(workflowsDB) :
                     /\ workflowsDB[k].Criteria.payment_type = "credit_card"
                     /\ workflowsDB[k].Criteria.currency = order.PaymentCurrency}
  IN IF matching = {} THEN Nil
     ELSE CHOOSE k \in matching : \A j \in matching : k <= j

\* A lookup that falls back on the first workflow when none matches.
findWorkflowDefault(order) ==
  LET matching == {k \in 1..Len(workflowsDB) :
                     /\ workflowsDB[k].Criteria.payment_type = "credit_card"
                     /\ workflowsDB[k].Criteria.currency = order.Currency}
  IN IF matching = {} THEN 1
     ELSE CHOOSE k \in matching : \A j \in matching : k <= j

\* findWorkflow: the index in workflowsDB of the first workflow whose criteria
\* match the order's original currency, or Nil.
findWorkflow(order) ==
  LET matching == {k \in 1..Len(workflowsDB) :
                     /\ workflowsDB[k].Criteria.payment_type = "credit_card"
                     /\ workflowsDB[k].Criteria.currency = order.Currency}
  IN IF matching = {} THEN Nil
     ELSE CHOOSE k \in matching : \A j \in matching : k <= j

\* A lock that excludes nobody.
CanLockUnguarded == TRUE

\* orderMutex.Lock() can return.
CanLock == orderMutex = NoTask

\* Requests of one kind are interchangeable until their bodies are decoded, so
\* they are numbered in the order in which their handlers take the lock.
Arrives(t) ==
  /\ pc[t] = "idle"
  /\ \A u \in Tasks : (u < t /\ (u \in Creators <=> t \in Creators)) => pc[u] # "idle"

\* An ID that does not depend on the orders stored.
NextOrderIDFirst(db) == FormatOrderID(1)

\* The ID createOrder assigns under the lock.
NextOrderID(db) == FormatOrderID(Cardinality(DOMAIN db) + 1)

\* A decision that writes the payment amount whatever the answer.
ApplyDecisionAlwaysAmount(order, accepted, newAmount, newCurrency) ==
  IF accepted
    THEN [order EXCEPT !.PaymentAmount = newAmount,
                       !.PaymentCurrency = newCurrency,
                       !.DCCAccepted = TRUE]
    ELSE [order EXCEPT !.PaymentAmount = newAmount,
                       !.DCCAccepted = FALSE]

\* A decision that forgets the currency.
ApplyDecisionNoCurrency(order, accepted, newAmount, newCurrency) ==
  IF accepted
    THEN [order EXCEPT !.PaymentAmount = newAmount,
                       !.DCCAccepted = TRUE]
    ELSE [order EXCEPT !.DCCAccepted = FALSE]

\* A decision that writes the original fields instead of the payment fields.
ApplyDecisionOriginalFields(order, accepted, newAmount, newCurrency) ==
  IF accepted
    THEN [order EXCEPT !.Amount = newAmount,
                       !.Currency = newCurrency,
                       !.DCCAccepted = TRUE]
    ELSE [order EXCEPT !.DCCAccepted = FALSE]

\* The handler's copy of the order after the decision has been applied to it.
ApplyDecision(order, accepted, newAmount, newCurrency) ==
  IF accepted
    THEN [order EXCEPT !.PaymentAmount = newAmount,
                       !.PaymentCurrency = newCurrency,
                       !.DCCAccepted = TRUE]
    ELSE [order EXCEPT !.DCCAccepted = FALSE]

\* The instance of order id has been removed from the registry: the order's
\* request put one there and it is there no more.
Removed(id) ==
  /\ id \notin DOMAIN workflowInstances
  /\ \E c \in Creators :
       /\ local[c].order.OrderID = id
       /\ findWorkflow(local[c].order) # Nil
       /\ pc[c] \in {"spawn", "done"}

\* workflowInstances[id], nil when the key is absent.
InstanceOf(id) ==
  IF id \in DOMAIN workflowInstances THEN workflowInstances[id] ELSE Nil

\* A goroutine as `go executeWorkflowSteps(order, instance)` starts it.
NewBurst(order, instance) ==
  [pc |-> "start", order |-> order, instance |-> instance, i |-> 0]

-----------------------------------------------------------------------------
\* createOrder, lines 77-88: decode the body, take the lock, assign the ID and
\* initialise the payment fields of the local order.
CreateLock(t) ==
  /\ ~crashed
  /\ Arrives(t)
  /\ CanLock
  /\ \E cur \in Currencies :
       local' = [local EXCEPT ![t].order =
                   [DecodeOrder(t, cur) EXCEPT !.OrderID = NextOrderID(ordersDB),
                                               !.PaymentAmount = OrderAmount,
                                               !.PaymentCurrency = cur]]
  /\ orderMutex' = t
  /\ pc' = [pc EXCEPT ![t] = "store"]
  /\ UNCHANGED <<ordersDB, workflowInstances, heap, burst, payments, offers, crashed>>

\* createOrder, lines 89-99: store the order, unlock, look the workflow up and
\* return when there is none.
CreateStore(t) ==
  /\ ~crashed
  /\ pc[t] = "store"
  /\ ordersDB' = MapPut(ordersDB, local[t].order.OrderID, local[t].order)
  /\ orderMutex' = NoTask
  /\ pc' = [pc EXCEPT ![t] = IF findWorkflow(local[t].order) = Nil THEN "done" ELSE "insert"]
  /\ local' = [local EXCEPT ![t].reply =
                 IF findWorkflow(local[t].order) = Nil THEN ImplicitReply ELSE @]
  /\ UNCHANGED <<workflowInstances, heap, burst, payments, offers, crashed>>

\* createOrder, lines 102-105: allocate the instance (its address is named
\* after the request that allocates it) and put it in the map.
CreateInsert(t) ==
  /\ ~crashed
  /\ pc[t] = "insert"
  /\ heap' = MapPut(heap, t, [Workflow |-> findWorkflow(local[t].order), StepIndex |-> 0])
  /\ workflowInstances' = MapPut(workflowInstances, local[t].order.OrderID, t)
  /\ pc' = [pc EXCEPT ![t] = "spawn"]
  /\ UNCHANGED <<ordersDB, orderMutex, local, burst, payments, offers, crashed>>

\* createOrder, lines 108-111: read the instance back from the map, start the
\* goroutine with it and answer.
CreateSpawn(t) ==
  /\ ~crashed
  /\ pc[t] = "spawn"
  /\ burst' = [burst EXCEPT ![t] = NewBurst(local[t].order, InstanceOf(local[t].order.OrderID))]
  /\ local' = [local EXCEPT ![t].reply = CreatedReply(local[t].order)]
  /\ pc' = [pc EXCEPT ![t] = "done"]
  /\ UNCHANGED <<ordersDB, orderMutex, workflowInstances, heap, payments, offers, crashed>>

-----------------------------------------------------------------------------
\* acceptDCCHandler, lines 162-188: decode the body, take the lock, read the
\* order and apply the decision to the local copy.
DecideLock(t) ==
  /\ ~crashed
  /\ Arrives(t)
  /\ CanLock
  /\ \E id \in ClientOrderIDs, body \in DecisionBodies :
       LET exists == id \in DOMAIN ordersDB
           order  == IF exists THEN ordersDB[id] ELSE ZeroOrder
       IN local' = [local EXCEPT ![t] =
                      [order       |-> IF exists
                                         THEN ApplyDecision(order, body.Accepted,
                                                            body.NewAmount, body.NewCurrency)
                                         ELSE order,
                       exists      |-> exists,
                       Accepted    |-> body.Accepted,
                       NewAmount   |-> body.NewAmount,
                       NewCurrency |-> body.NewCurrency,
                       OrderID     |-> id,
                       late        |-> Removed(id),
                       reply       |-> NoReply]]
  /\ orderMutex' = t
  /\ pc' = [pc EXCEPT ![t] = "store"]
  /\ UNCHANGED <<ordersDB, workflowInstances, heap, burst, payments, offers, crashed>>

\* acceptDCCHandler, lines 189-191: write the order back when it exists, unlock.
DecideStore(t) ==
  /\ ~crashed
  /\ pc[t] = "store"
  /\ ordersDB' = IF local[t].exists
                   THEN MapPut(ordersDB, local[t].OrderID, local[t].order)
                   ELSE ordersDB
  /\ orderMutex' = NoTask
  /\ pc' = [pc EXCEPT ![t] = "lookup"]
  /\ UNCHANGED <<workflowInstances, heap, local, burst, payments, offers, crashed>>

\* acceptDCCHandler, lines 194-201: look the instance up and, when there is
\* one, start a goroutine on it with the handler's copy of the order.
DecideLookup(t) ==
  /\ ~crashed
  /\ pc[t] = "lookup"
  /\ burst' = [burst EXCEPT ![t] =
                 IF local[t].OrderID \in DOMAIN workflowInstances
                   THEN NewBurst(local[t].order, workflowInstances[local[t].OrderID])
                   ELSE @]
  /\ local' = [local EXCEPT ![t].reply = OkReply]
  /\ pc' = [pc EXCEPT ![t] = "done"]
  /\ UNCHANGED <<ordersDB, orderMutex, workflowInstances, heap, payments, offers, crashed>>

-----------------------------------------------------------------------------
\* instance.Workflow.Steps
StepsOf(instance) == workflowsDB[heap[instance].Workflow].Steps

\* Where the loop of executeWorkflowSteps goes with index i: into the body
\* while i < len(Steps), to the delete after the loop otherwise.
LoopTarget(i, steps) == IF i < Len(steps) THEN "step" ELSE "delete"

\* A cursor that skips the step after the pause.
AdvancedCursorSkip(i) == i + 2

\* A pause step that leaves the cursor on itself.
AdvancedCursorStuck(i) == i

\* The cursor the pause step at index i stores: instance.StepIndex = i + 1.
AdvancedCursor(i) == i + 1

\* proposeDCC: the offer it logs.
proposeDCC(order) ==
  [OrderID |-> order.OrderID, PaymentAmount |-> order.PaymentAmount,
   PaymentCurrency |-> order.PaymentCurrency,
   convertedAmount |-> (order.PaymentAmount * 85) \div 100]

\* processPayment: the payment it logs.
processPayment(order) ==
  [OrderID |-> order.OrderID, PaymentAmount |-> order.PaymentAmount,
   PaymentCurrency |-> order.PaymentCurrency]

\* executeWorkflowSteps, line 127, loop initialisation: read the cursor of the
\* instance.  A nil instance is a nil-pointer dereference: the goroutine
\* panics and the process dies.
BurstStart(t) ==
  /\ ~crashed
  /\ burst[t].pc = "start"
  /\ IF burst[t].instance = Nil
       THEN Die
       ELSE /\ burst' = [burst EXCEPT
                           ![t].i = heap[burst[t].instance].StepIndex,
                           ![t].pc = LoopTarget(heap[burst[t].instance].StepIndex,
                                                StepsOf(burst[t].instance))]
            /\ UNCHANGED <<ordersDB, orderMutex, workflowInstances, heap, pc, local,
                           payments, offers, crashed>>

\* executeWorkflowSteps, lines 128-141: one iteration of the loop body on
\* Steps[i] (TLA+ sequences start at 1).
BurstStep(t) ==
  /\ ~crashed
  /\ burst[t].pc = "step"
  /\ LET b    == burst[t]
         step == StepsOf(b.instance)[b.i + 1]
     IN IF step.StepID = "dcc_proposal"
          THEN /\ offers' = offers \cup {[by |-> t, step |-> b.i, log |-> proposeDCC(b.order)]}
               /\ burst' = [burst EXCEPT ![t].pc = "advance"]
               /\ UNCHANGED payments
          ELSE /\ payments' = IF step.Service = "PBC_Payment"
                                THEN payments \cup {[by |-> t, step |-> b.i,
                                                     log |-> processPayment(b.order)]}
                                ELSE payments
               /\ burst' = [burst EXCEPT ![t].i = b.i + 1,
                                         ![t].pc = LoopTarget(b.i + 1, StepsOf(b.instance))]
               /\ UNCHANGED offers
  /\ UNCHANGED <<ordersDB, orderMutex, workflowInstances, heap, pc, local, crashed>>

\* A pause step that writes the cursor and goes on with the loop.
BurstAdvanceNoReturn(t) ==
  /\ ~crashed
  /\ burst[t].pc = "advance"
  /\ heap' = [heap EXCEPT ![burst[t].instance].StepIndex = burst[t].i + 1]
  /\ burst' = [burst EXCEPT ![t].i = burst[t].i + 1,
                            ![t].pc = IF burst[t].i + 1 < Len(workflowsDB[heap[burst[t].instance].Workflow].Steps)
                                        THEN "step" ELSE "delete"]
  /\ UNCHANGED <<ordersDB, orderMutex, workflowInstances, pc, local, payments, offers, crashed>>

\* executeWorkflowSteps, lines 134-135: write the cursor and return.
BurstAdvance(t) ==
  /\ ~crashed
  /\ burst[t].pc = "advance"
  /\ heap' = [heap EXCEPT ![burst[t].instance].StepIndex = AdvancedCursor(burst[t].i)]
  /\ burst' = [burst EXCEPT ![t].pc = "done"]
  /\ UNCHANGED <<ordersDB, orderMutex, workflowInstances, pc, local, payments, offers, crashed>>

\* executeWorkflowSteps, lines 144-145: remove the instance from the map.
BurstDelete(t) ==
  /\ ~crashed
  /\ burst[t].pc = "delete"
  /\ workflowInstances' = MapDelete(workflowInstances, burst[t].order.OrderID)
  /\ burst' = [burst EXCEPT ![t].pc = "done"]
  /\ UNCHANGED <<ordersDB, orderMutex, heap, pc, local, payments, offers, crashed>>

-----------------------------------------------------------------------------
\* The threads of the process: the handler of request t and the goroutine it
\* started.
Threads == {<<"handler", t>> : t \in Tasks} \cup {<<"burst", t>> : t \in Tasks}

\* The access to the map workflowInstances that thread th is executing:
\* "write", "read" or "none".  Nothing orders these accesses.
MapAccess(th) ==
  IF th[1] = "handler"
    THEN CASE th[2] \in Creators /\ pc[th[2]] = "insert" -> "write"
           [] th[2] \in Creators /\ pc[th[2]] = "spawn"  -> "read"
           [] th[2] \in Deciders /\ pc[th[2]] = "lookup" -> "read"
           [] OTHER -> "none"
    ELSE IF burst[th[2]].pc = "delete" THEN "write" ELSE "none"

\* Two threads are in unsynchronised accesses to the map, one of them writing.
MapRace ==
  \E a, b \in Threads :
    /\ a # b
    /\ MapAccess(a) = "write"
    /\ MapAccess(b) # "none"

\* The Go runtime's check on map access: when it sees a write in progress
\* during another access it throws "concurrent map writes" or "concurrent map
\* read and map write", which ends the process.  The check is best effort, so
\* the accesses may also go through in either order (the other actions).
FatalMapRace ==
  /\ ~crashed
  /\ MapRace
  /\ Die

-----------------------------------------------------------------------------
Handler(t) ==
  \/ t \in Creators /\ (CreateStore(t) \/ CreateInsert(t) \/ CreateSpawn(t))
  \/ t \in Deciders /\ (DecideStore(t) \/ DecideLookup(t))

Burst(t) == BurstStart(t) \/ BurstStep(t) \/ BurstAdvance(t) \/ BurstDelete(t)

Next ==
  \/ \E t \in Creators : CreateLock(t)
  \/ \E t \in Creators : CreateStore(t)
  \/ \E t \in Creators : CreateInsert(t)
  \/ \E t \in Creators : CreateSpawn(t)
  \/ \E t \in Deciders : DecideLock(t)
  \/ \E t \in Deciders : DecideStore(t)
  \/ \E t \in Deciders : DecideLookup(t)
  \/ \E t \in Tasks : BurstStart(t)
  \/ \E t \in Tasks : BurstStep(t)
  \/ \E t \in Tasks : BurstAdvance(t)
  \/ \E t \in Tasks : BurstDelete(t)
  \/ FatalMapRace

Spec == Init /\ [][Next]_vars

\* The scheduler runs every handler that holds or needs no lock and every
\* goroutine; clients are not obliged to send requests.
FairSpec ==
  /\ Spec
  /\ \A t \in Tasks : WF_vars(Handler(t))
  /\ \A t \in Tasks : WF_vars(Burst(t))

-----------------------------------------------------------------------------
\* Vocabulary of the properties.

\* Request t (a /create-order) has stored its order (line 89 has run).
Stored(t) == pc[t] \in {"insert", "spawn", "done"}

\* Request d (an /accept-dcc) has been submitted: its handler has decoded the
\* body and is past orderMutex.Lock().
Submitted(d) == pc[d] \in {"store", "lookup", "done"}

\* Request d has written its decision to ordersDB (line 189 has run).
Applied(d) == pc[d] \in {"lookup", "done"}

\* The goroutine started by request t is running.
Active(t) == burst[t].pc \in {"start", "step", "advance", "delete"}

\* The 0-based index of the first pause step of a step sequence, -1 if none.
PauseIndex(steps) ==
  LET ps == {k \in 1..Len(steps) : steps[k].StepID = "dcc_proposal"}
  IN IF ps = {} THEN -1 ELSE (CHOOSE k \in ps : \A j \in ps : k <= j) - 1

\* The template findWorkflow selects for the order has a pause step.
HasPause(order) ==
  /\ findWorkflow(order) # Nil
  /\ PauseIndex(workflowsDB[findWorkflow(order)].Steps) >= 0

\* The payments logged for order id.
PaymentsOf(id) == {e \in payments : e.log.OrderID = id}

-----------------------------------------------------------------------------
\* C1: every /create-order that has stored its order has a record of its own
\* in ordersDB under the ID it was assigned: the IDs of different requests
\* differ, each record still carries its request's customer, and there are as
\* many records as requests that have stored.
C1_DistinctOrderIDs ==
  /\ \A t \in Creators :
       Stored(t) =>
         /\ local[t].order.OrderID \in DOMAIN ordersDB
         /\ ordersDB[local[t].order.OrderID].CustomerID = <<"cliente", t>>
  /\ \A t, u \in Creators :
       (Stored(t) /\ Stored(u) /\ t # u) => local[t].order.OrderID # local[u].order.OrderID
  /\ Cardinality(DOMAIN ordersDB) = Cardinality({t \in Creators : Stored(t)})

\* Witness of C1: all the create requests overlapped (the second took the
\* lock before the first had finished) and all have stored.
C1_Witness ==
  /\ \A t \in Creators : Stored(t)
  /\ \E t, u \in Creators : t < u /\ pc[t] = "insert" /\ Stored(u)
  /\ Cardinality(DOMAIN ordersDB) = NumCreate

\* C3: no two goroutines run executeWorkflowSteps for the same order at once.
C3_OneBurstPerOrder ==
  \A t, u \in Tasks :
    (t # u /\ Active(t) /\ Active(u)) => burst[t].order.OrderID # burst[u].order.OrderID

\* The access to the instance registry (the map, or the cursor of an instance
\* held in it) that thread th is executing.
RegistryAccess(th) ==
  IF MapAccess(th) # "none" THEN MapAccess(th)
  ELSE IF th[1] = "burst" /\ burst[th[2]].pc = "start" THEN "read"
  ELSE IF th[1] = "burst" /\ burst[th[2]].pc = "advance" THEN "write"
  ELSE "none"

\* C4: no two threads are inside a registry access at once with one of them
\* writing.
C4_RegistryAccessExclusive ==
  \A a, b \in Threads :
    (a # b /\ RegistryAccess(a) = "write") => RegistryAccess(b) = "none"

-----------------------------------------------------------------------------
\* C2: whenever the settlement step runs for an order of the template
\* [pause, settlement] for which an accepted decision has been written to
\* ordersDB, it runs with that decision's amount and currency.
C2_SettlementUsesAcceptedValues ==
  [][ \A e \in payments' \ payments :
        \A d \in Deciders :
          ( /\ Applied(d)
            /\ local[d].exists
            /\ local[d].Accepted
            /\ local[d].OrderID = e.log.OrderID
            /\ HasPause(ordersDB[e.log.OrderID]) )
          => /\ e.log.PaymentAmount = local[d].NewAmount
             /\ e.log.PaymentCurrency = local[d].NewCurrency ]_vars

C6_AcceptedDecisionStep ==
  \A d \in Deciders :
    ( /\ pc[d] = "store"
      /\ pc'[d] = "lookup"
      /\ local[d].exists
      /\ local[d].Accepted )
    => /\ local[d].OrderID \in DOMAIN ordersDB
       /\ orderMutex = d
       /\ ordersDB' = [ordersDB EXCEPT ![local[d].OrderID] =
                         [@ EXCEPT !.PaymentAmount = local[d].NewAmount,
                                   !.PaymentCurrency = local[d].NewCurrency,
                                   !.DCCAccepted = TRUE]]

\* C6: the write of an accepted decision on an existing order changes the
\* stored record in one step and in exactly three fields: the payment amount
\* and currency become the submitted ones and the flag becomes true; the
\* handler holds orderMutex from the read of the record to that write.
C6_AcceptedDecisionAtomic == [][C6_AcceptedDecisionStep]_vars

\* Witness of C6: an accepted decision has been written to an existing order,
\* whose record holds the submitted amount and currency and a true flag.
C6_Witness ==
  \E d \in Deciders :
    /\ Applied(d)
    /\ local[d].exists
    /\ local[d].Accepted
    /\ ordersDB[local[d].OrderID].PaymentAmount = local[d].NewAmount
    /\ ordersDB[local[d].OrderID].PaymentCurrency = local[d].NewCurrency
    /\ ordersDB[local[d].OrderID].DCCAccepted
    /\ ordersDB[local[d].OrderID].PaymentAmount # ordersDB[local[d].OrderID].Amount

\* The instance of order id is suspended: it is in the registry, the order's
\* initial burst has finished, and the cursor is just past the pause step.
Suspended(id) ==
  /\ id \in DOMAIN workflowInstances
  /\ \E c \in Creators :
       /\ local[c].order.OrderID = id
       /\ HasPause(local[c].order)
       /\ burst[c].pc = "done"
       /\ heap[workflowInstances[id]].StepIndex =
            PauseIndex(workflowsDB[findWorkflow(local[c].order)].Steps) + 1

\* C7: a decision submitted for an order whose instance is suspended leads to
\* the settlement having run for that order and the instance being out of the
\* registry, in a process that is still alive.
C7_ResumeCompletes ==
  \A d \in Deciders : \A id \in ClientOrderIDs :
    (pc[d] = "store" /\ local[d].OrderID = id /\ Suspended(id))
      ~> (~crashed /\ id \notin DOMAIN workflowInstances /\ PaymentsOf(id) # {})

\* C8, the write: a refused decision on an existing order leaves the stored
\* record as it was but for the flag, which is false.
C8_RejectStoreStep ==
  \A d \in Deciders :
    (pc[d] = "store" /\ pc'[d] = "lookup" /\ local[d].exists /\ ~local[d].Accepted)
    => /\ local[d].OrderID \in DOMAIN ordersDB
       /\ ordersDB' = [ordersDB EXCEPT ![local[d].OrderID] = [@ EXCEPT !.DCCAccepted = FALSE]]
       /\ local[d].order = ordersDB'[local[d].OrderID]

\* C8, the resume: a refused decision on an existing order that finds the
\* instance in the registry starts a burst on it with the record it wrote.
C8_RejectResumeStep ==
  \A d \in Deciders :
    ( /\ pc[d] = "lookup"
      /\ pc'[d] = "done"
      /\ local[d].exists
      /\ ~local[d].Accepted
      /\ local[d].OrderID \in DOMAIN workflowInstances )
    => burst'[d] = NewBurst(local[d].order, workflowInstances[local[d].OrderID])

\* C8, the steps: every settlement the burst of a refused decision on an
\* existing order runs uses the payment values the order had before the
\* decision, and a burst that has run to the end of the steps has run the
\* settlement.
C8_RejectSettles ==
  \A d \in Deciders :
    (local[d].exists /\ ~local[d].Accepted) =>
      /\ \A e \in payments :
           e.by = d => /\ e.log.OrderID = local[d].OrderID
                       /\ e.log.PaymentAmount = local[d].order.PaymentAmount
                       /\ e.log.PaymentCurrency = local[d].order.PaymentCurrency
      /\ ( /\ burst[d].pc \in {"delete", "done"}
           /\ burst[d].i = Len(StepsOf(burst[d].instance)) )
         => \E e \in payments : e.by = d

\* C8: a refused decision changes nothing of the order but the flag, and the
\* remaining steps run with the payment values from before the decision.
C8_RejectKeepsPayment ==
  /\ [][C8_RejectStoreStep /\ C8_RejectResumeStep]_vars
  /\ []C8_RejectSettles

\* Witness of C8: after a refused decision on a suspended USD order, the
\* decision's burst has run the settlement with the original 100 USD and the
\* stored order still holds them.
C8_Witness ==
  \E d \in Deciders :
    /\ pc[d] = "done"
    /\ ~local[d].Accepted
    /\ local[d].exists
    /\ local[d].order.Currency = "USD"
    /\ \E e \in payments :
         /\ e.by = d
         /\ e.log.PaymentAmount = OrderAmount
         /\ e.log.PaymentCurrency = "USD"
    /\ ordersDB[local[d].OrderID].PaymentAmount = OrderAmount
    /\ ordersDB[local[d].OrderID].PaymentCurrency = "USD"
    /\ ~ordersDB[local[d].OrderID].DCCAccepted

\* The steps of C9: those of the handler of a decision that was submitted
\* when the order's instance had already been removed.
C9_LateDecisionStep ==
  \A d \in Deciders :
    (local[d].late /\ pc'[d] # pc[d] /\ pc'[d] \in {"lookup", "done"})
    => /\ ordersDB' = ordersDB
       /\ workflowInstances' = workflowInstances
       /\ burst' = burst
       /\ ~crashed'

\* C9: the handler of a decision submitted when the order's instance had
\* already been removed changes neither ordersDB nor the registry, starts no
\* burst and does not end the process.
C9_LateDecisionNoChange == [][C9_LateDecisionStep]_vars

\* C10: every stored order has, under its ID, the order ID, customer ID,
\* amount, currency and card brand its /create-order request stored.
C10_OriginalFieldsImmutable ==
  /\ \A id \in DOMAIN ordersDB : ordersDB[id].OrderID = id
  /\ \A t \in Creators :
       Stored(t) =>
         LET created == local[t].order
             now     == ordersDB[created.OrderID]
         IN /\ now.OrderID = created.OrderID
            /\ now.CustomerID = created.CustomerID
            /\ now.Amount = created.Amount
            /\ now.Currency = created.Currency
            /\ now.CardBrand = created.CardBrand

\* Witness of C10: an accepted decision has been written to an order whose
\* burst has also run, and the payment fields differ from the original ones.
C10_Witness ==
  \E t \in Creators : \E d \in Deciders :
    /\ Stored(t)
    /\ Applied(d)
    /\ local[d].Accepted
    /\ local[d].OrderID = local[t].order.OrderID
    /\ burst[d].pc = "done"
    /\ ordersDB[local[d].OrderID].PaymentCurrency # ordersDB[local[d].OrderID].Currency

-----------------------------------------------------------------------------
\* C11: every /create-order that has returned has answered with an order (one
\* document) whose payment amount and currency are its original amount and
\* currency, and the record it stored held the same values.
C11_CreateReturnsOrder ==
  \A t \in Creators :
    pc[t] = "done" =>
      /\ Len(local[t].reply.body) = 1
      /\ local[t].reply.body[1].OrderID = local[t].order.OrderID
      /\ local[t].reply.body[1].PaymentAmount = local[t].reply.body[1].Amount
      /\ local[t].reply.body[1].PaymentCurrency = local[t].reply.body[1].Currency
      /\ local[t].order.PaymentAmount = local[t].order.Amount
      /\ local[t].order.PaymentCurrency = local[t].order.Currency

\* The templates of the catalog whose currency criterion is the order's
\* original currency.
TemplatesFor(order) ==
  {k \in 1..Len(workflowsDB) : workflowsDB[k].Criteria.currency = order.Currency}

\* C12: the instance created for an order whose original currency matches
\* exactly one template references that template, and matching the stored
\* record again, whatever decisions have done to its payment fields, selects
\* the same template.
C12_MatchedTemplate ==
  \A t \in Creators :
    (pc[t] \in {"spawn", "done"} /\ Cardinality(TemplatesFor(local[t].order)) = 1)
    => /\ t \in DOMAIN heap
       /\ heap[t].Workflow \in TemplatesFor(local[t].order)
       /\ heap[t].Workflow = findWorkflow(ordersDB[local[t].order.OrderID])

\* Witness of C12: an accepted decision has changed the payment currency of a
\* USD order whose instance references the USD template.
C12_Witness ==
  \E t \in Creators :
    /\ pc[t] = "done"
    /\ local[t].order.Currency = "USD"
    /\ t \in DOMAIN heap
    /\ workflowsDB[heap[t].Workflow].WorkflowID = "wf-payment-dcc-proposal"
    /\ ordersDB[local[t].order.OrderID].PaymentCurrency = "BRL"

\* C13: an order that no template matches stays in ordersDB, its request has
\* returned without an error status, and it has no instance, no burst and no
\* executed step.
C13_NoTemplateNoWorkflow ==
  \A t \in Creators :
    (Stored(t) /\ TemplatesFor(local[t].order) = {})
    => LET id == local[t].order.OrderID
       IN /\ pc[t] = "done"
          /\ local[t].reply.status < 400
          /\ ~crashed
          /\ id \in DOMAIN ordersDB
          /\ id \notin DOMAIN workflowInstances
          /\ t \notin DOMAIN heap
          /\ burst[t].pc = "none"
          /\ \A u \in Tasks : burst[u].pc # "none" => burst[u].order.OrderID # id
          /\ \A e \in payments \cup offers : e.log.OrderID # id

\* Witness of C13: an EUR order has been stored and a decision on it has been
\* handled to the end.
C13_Witness ==
  \E t \in Creators : \E d \in Deciders :
    /\ Stored(t)
    /\ local[t].order.Currency = "EUR"
    /\ pc[d] = "done"
    /\ local[d].exists
    /\ local[d].OrderID = local[t].order.OrderID

\* The entries of the settlement log written by bursts running on the instance
\* that creator t allocated.
SettlementsOn(t) == {e \in payments : burst[e.by].instance = t}

\* C14: the handler of a decision whose order ID had no record when it was read
\* changes no order record and no registry entry, starts no burst, and its
\* lookup in the registry does not end the process.
C14_UnknownOrderNoOp ==
  [][\A d \in Deciders :
       (Submitted(d) /\ ~local[d].exists)
       => /\ (pc'[d] # pc[d] /\ ~crashed')
             => /\ ordersDB' = ordersDB
                /\ workflowInstances' = workflowInstances
                /\ burst' = burst
          /\ (MapAccess(<<"handler", d>>) = "read" /\ MapRace) => ~crashed']_vars

\* C16: the settlement step runs at most once on the instance of any order.
C16_SettlesAtMostOnce ==
  \A t \in Creators : Cardinality(SettlementsOn(t)) <= 1

\* Some decision has been submitted for order id.
DecisionSubmittedFor(id) == \E d \in Deciders : Submitted(d) /\ local[d].OrderID = id

\* C15: on the instance of an order whose template has a pause step, settlement
\* has run only if a decision for that order ID has been submitted; and, while
\* the process runs, a suspended instance for which no decision has been
\* submitted is still suspended after any step.
C15_NoSettlementBeforeDecision ==
  /\ [](\A t \in Creators :
          (Stored(t) /\ HasPause(local[t].order) /\ SettlementsOn(t) # {})
          => DecisionSubmittedFor(local[t].order.OrderID))
  /\ [][\A id \in ClientOrderIDs :
          (Suspended(id) /\ ~DecisionSubmittedFor(id) /\ ~crashed')
          => Suspended(id)']_vars

\* Witness of C15: settlement has run on the instance of a USD order (after a
\* decision, then).
C15_Witness ==
  \E t \in Creators :
    /\ Stored(t)
    /\ HasPause(local[t].order)
    /\ SettlementsOn(t) # {}
    /\ \E e \in offers : e.by = t

\* C17: under fair scheduling, the order of every /create-order that is about
\* to start the burst of a template without a pause step is eventually settled
\* and its instance removed from the registry, the process still running.
C17_NoPauseCompletes ==
  \A t \in Creators :
    (pc[t] = "spawn" /\ findWorkflow(local[t].order) # Nil /\ ~HasPause(local[t].order))
    ~> ( /\ ~crashed
         /\ local[t].order.OrderID \notin DOMAIN workflowInstances
         /\ SettlementsOn(t) # {} )

\* C18: the cursor of an instance starts at 0, never decreases, stays within
\* 0..number of steps of its template, and changes only by the cursor write of
\* a burst that has run a pause step at index i, to i + 1.
C18_CursorMonotone ==
  /\ [](\A t \in DOMAIN heap :
          /\ heap[t].StepIndex >= 0
          /\ heap[t].StepIndex <= Len(StepsOf(t)))
  /\ [][\A t \in Creators :
          /\ (t \notin DOMAIN heap /\ t \in DOMAIN heap') => heap'[t].StepIndex = 0
          /\ (t \in DOMAIN heap /\ t \in DOMAIN heap')
             => /\ heap'[t].StepIndex >= heap[t].StepIndex
                /\ heap'[t].Workflow = heap[t].Workflow
                /\ \A u \in Tasks :
                     (burst[u].pc = "advance" /\ burst'[u].pc # "advance"
                        /\ burst[u].instance = t)
                     => /\ StepsOf(t)[burst[u].i + 1].StepID = "dcc_proposal"
                        /\ heap'[t].StepIndex = burst[u].i + 1
                /\ heap'[t].StepIndex # heap[t].StepIndex
                   => \E u \in Tasks : /\ burst[u].pc = "advance"
                                       /\ burst'[u].pc # "advance"
                                       /\ burst[u].instance = t]_vars

\* Witness of C18: a burst has resumed from a cursor that a pause step wrote
\* and has run the step it points at.
C18_Witness ==
  \E t \in DOMAIN heap :
    /\ heap[t].StepIndex = 1
    /\ \E e \in SettlementsOn(t) : e.step = 1

\* C19: every instance in the registry is that of an order in ordersDB and
\* references the template whose currency criterion is the order's original
\* currency; and an order ID whose instance has been removed is in the registry
\* after no step.
C19_RegistryConsistent ==
  /\ [](\A id \in DOMAIN workflowInstances :
          /\ id \in DOMAIN ordersDB
          /\ workflowInstances[id] \in DOMAIN heap
          /\ workflowsDB[heap[workflowInstances[id]].Workflow].Criteria.currency
               = ordersDB[id].Currency)
  /\ [][\A id \in ClientOrderIDs :
          Removed(id) => id \notin DOMAIN workflowInstances']_vars

\* Witness of C19: the instance of an order has been removed and a decision
\* submitted for it after the removal has been handled to the end.
C19_Witness ==
  \E d \in Deciders :
    /\ pc[d] = "done"
    /\ local[d].late
    /\ Removed(local[d].OrderID)
    /\ workflowInstances # EmptyMap

\* What the program holds about order id: its record, and its instance if it
\* has one (the registry entry and the object it points at).
OrderState(id) ==
  [record   |-> IF id \in DOMAIN ordersDB THEN <<ordersDB[id]>> ELSE << >>,
   entry    |-> IF id \in DOMAIN workflowInstances THEN <<workflowInstances[id]>> ELSE << >>,
   instance |-> IF id \in DOMAIN workflowInstances /\ workflowInstances[id] \in DOMAIN heap
                  THEN <<heap[workflowInstances[id]]>> ELSE << >>]

\* C20: while the process runs, a step of the handler of a decision for order
\* X, or of the burst it started, leaves the record and the instance (registry
\* entry, template, cursor) of every other order as they were.
C20_DecisionFrame ==
  [][\A d \in Deciders :
       (~crashed' /\ (pc'[d] # pc[d] \/ burst'[d] # burst[d]))
       => \A id \in ClientOrderIDs \ {local'[d].OrderID} :
            OrderState(id)' = OrderState(id)]_vars

\* Witness of C20: the burst of a decision has settled and ended while another
\* order has its instance in the registry.
C20_Witness ==
  \E d \in Deciders :
    /\ burst[d].pc = "done"
    /\ \E e \in payments : e.by = d
    /\ \E id \in DOMAIN workflowInstances : id # local[d].OrderID

====
